---- MODULE Spec2Model ----
(***************************************************************************)
(* Model of src/components/ButtonDrop.vue: a draggable button that falls   *)
(* under gravity, bounces off the viewport edges and tumbles.              *)
(*                                                                         *)
(* Numbers.  The component computes in IEEE doubles; the model computes in *)
(* fixed point.  Velocities and angular velocity are held in thousandths   *)
(* (Milli) of px/s and deg/s, positions and rotation in millionths (Micro) *)
(* of px and deg, times in whole milliseconds.  With these units           *)
(* "v * deltaTime / 1000" is the exact integer product v * deltaTime.      *)
(* Products and quotients are truncated towards zero to the thousandth     *)
(* (MulDiv), sign-symmetrically as floating point rounding is, so that a   *)
(* damped velocity decays all the way to zero.                             *)
(*                                                                         *)
(* Time.  lastTime is only ever read as performance.now() - lastTime, so   *)
(* the model holds that difference, elapsed.  "lastTime = now" is          *)
(* elapsed' = 0 and the passing of time (Wait) adds to elapsed.            *)
(*                                                                         *)
(* Frames.  pending is the browser's queue of requestAnimationFrame        *)
(* callbacks, oldest first; animationId is the component's ref.  Handles   *)
(* are only compared for equality and the browser never reuses one, so a   *)
(* new handle is the least positive integer that is neither pending nor    *)
(* the handle animationId still holds.                                     *)
(***************************************************************************)
EXTENDS Integers, Sequences, FiniteSets, TLC

VARIABLES
    mounted,          \* between onMounted and onUnmounted (listeners registered)
    isDragging, posX, posY, startX, startY, velocityX, velocityY,
    rotation, angularVelocity, hasDropped, animationId,
    elapsed,          \* performance.now() - lastTime.value
    pending,          \* scheduled requestAnimationFrame callbacks, oldest first
    innerWidth, innerHeight, scrollY,   \* window.innerWidth/innerHeight/scrollY
    op,               \* the handler that ran last
    hitBoundary,      \* value of animate's local hitBoundary in its last full run
    pointer,          \* <<clientX, clientY>> of the last event of the drag in
                      \* progress (<<0, 0>> when there is none)
    stamped,          \* lastTime has been written since the drag in progress began
    grabAge,          \* ms by which the lastTime in force is older than the
                      \* startDrag of the drag in progress (0 when it is not)
    steps             \* number of events handled so far

vars == <<mounted, isDragging, posX, posY, startX, startY, velocityX, velocityY,
          rotation, angularVelocity, hasDropped, animationId, elapsed, pending,
          innerWidth, innerHeight, scrollY, op, hitBoundary, pointer, stamped,
          grabAge, steps>>

body == <<posX, posY, velocityX, velocityY, angularVelocity, rotation>>

-----------------------------------------------------------------------------
(* Units *)
Milli == 1000
Micro == 1000000

(* Physical parameters, in thousandths *)
friction == 980
bounce == 700
gravity == 500
buttonWidth == 120
buttonHeight == 56
rotationFriction == 960
rotationMultiplier == 200

(* Bounds of the model *)
MaxSteps == 5
MaxElapsed == 60
FrameDelta == 16

Deltas == {60}
Viewports == {<<300, 200>>, <<121, 57>>}
Pointers == {<<150, 40>>, <<250, 40>>, <<150, 180>>}
ScrollYs == {50, 60}

-----------------------------------------------------------------------------
(* Arithmetic *)
Abs(x) == IF x < 0 THEN -x ELSE x

Min(a, b) == IF a < b THEN a ELSE b

\* a * n / d for a >= 0, truncated, without forming a * n
MulDivNat(a, n, d) ==
    LET q == a \div d
        r == (a % d) * n
    IN  q * n + (r \div d)

MulDiv(a, n, d) == IF a >= 0 THEN MulDivNat(a, n, d) ELSE -MulDivNat(-a, n, d)

\* a * k for a coefficient k held in thousandths
Mul(a, k) == MulDiv(a, k, Milli)

\* JavaScript a % m: the result has the sign of the dividend
Rem(a, m) == IF a >= 0 THEN a % m ELSE -((-a) % m)

\* Math.round(a / m) * m: halves round towards +Infinity
RoundTo(a, m) == ((2 * a + m) \div (2 * m)) * m

Range(s) == {s[i] : i \in DOMAIN s}

-----------------------------------------------------------------------------
(* The body as a value, for the pure parts of the simulation *)
CurBody ==
    [posX |-> posX, posY |-> posY, velocityX |-> velocityX, velocityY |-> velocityY,
     angularVelocity |-> angularVelocity, rotation |-> rotation]

SetBody(b) ==
    /\ posX' = b.posX
    /\ posY' = b.posY
    /\ velocityX' = b.velocityX
    /\ velocityY' = b.velocityY
    /\ angularVelocity' = b.angularVelocity
    /\ rotation' = b.rotation

\* Largest admissible posX / posY for a window of width W / height H
maxX(W) == (W - buttonWidth) * Micro

maxY(H) == (H - buttonHeight) * Micro

\* Mutant of checkX: the walls reflect velocityX without the bounce factor
checkXNoBounce(b, W) ==
    IF b.posX < 0
    THEN [b EXCEPT !.posX = 0,
                   !.velocityX = -b.velocityX,
                   !.angularVelocity = Mul(-b.velocityY, rotationMultiplier)]
         @@ [hit |-> TRUE]
    ELSE IF b.posX > maxX(W)
    THEN [b EXCEPT !.posX = maxX(W),
                   !.velocityX = -b.velocityX,
                   !.angularVelocity = Mul(b.velocityY, rotationMultiplier)]
         @@ [hit |-> TRUE]
    ELSE b @@ [hit |-> FALSE]

\* checkBoundaries, X axis: b with field hit added
checkX(b, W) ==
    IF b.posX < 0
    THEN [b EXCEPT !.posX = 0,
                   !.velocityX = Mul(-b.velocityX, bounce),
                   !.angularVelocity = Mul(-b.velocityY, rotationMultiplier)]
         @@ [hit |-> TRUE]
    ELSE IF b.posX > maxX(W)
    THEN [b EXCEPT !.posX = maxX(W),
                   !.velocityX = Mul(-b.velocityX, bounce),
                   !.angularVelocity = Mul(b.velocityY, rotationMultiplier)]
         @@ [hit |-> TRUE]
    ELSE b @@ [hit |-> FALSE]

\* Mutant of checkY: the floor branch leaves posY where it is
checkYNoFloorClamp(b, H) ==
    IF b.posY < 0
    THEN [b EXCEPT !.posY = 0,
                   !.velocityY = Mul(-b.velocityY, bounce),
                   !.angularVelocity = Mul(b.velocityX, rotationMultiplier),
                   !.hit = TRUE]
    ELSE IF b.posY > maxY(H)
    THEN [b EXCEPT !.velocityY = Mul(-b.velocityY, bounce),
                   !.angularVelocity = Mul(-b.velocityX, rotationMultiplier) * 2,
                   !.velocityX = MulDiv(b.velocityX, friction * 9, Milli * 10),
                   !.hit = TRUE]
    ELSE b

\* checkBoundaries, Y axis, on the result of the X axis
checkY(b, H) ==
    IF b.posY < 0
    THEN [b EXCEPT !.posY = 0,
                   !.velocityY = Mul(-b.velocityY, bounce),
                   !.angularVelocity = Mul(b.velocityX, rotationMultiplier),
                   !.hit = TRUE]
    ELSE IF b.posY > maxY(H)
    THEN [b EXCEPT !.posY = maxY(H),
                   !.velocityY = Mul(-b.velocityY, bounce),
                   !.angularVelocity = Mul(-b.velocityX, rotationMultiplier) * 2,
                   !.velocityX = MulDiv(b.velocityX, friction * 9, Milli * 10),
                   !.hit = TRUE]
    ELSE b

\* checkBoundaries resolving the Y axis first
checkBoundariesYFirst(b, W, H) == checkX(checkY(b, H), W)

checkBoundaries(b, W, H) == checkY(checkX(b, W), H)

\* integrate with gravity pulling upwards
integrateUp(b, deltaTime) ==
    LET vx == Mul(b.velocityX, friction)
        vy == Mul(b.velocityY - gravity, friction)
    IN  [b EXCEPT !.velocityX = vx,
                  !.velocityY = vy,
                  !.posX = b.posX + vx * deltaTime,
                  !.posY = b.posY + vy * deltaTime]

\* animate, lines 124-129: gravity, friction, integration over deltaTime ms
integrate(b, deltaTime) ==
    LET vx == Mul(b.velocityX, friction)
        vy == Mul(b.velocityY + gravity, friction)
    IN  [b EXCEPT !.velocityX = vx,
                  !.velocityY = vy,
                  !.posX = b.posX + vx * deltaTime,
                  !.posY = b.posY + vy * deltaTime]

\* animate, lines 134-138: rotation physics and normalisation
rotate(b, deltaTime) ==
    LET av == Mul(b.angularVelocity, rotationFriction)
    IN  [b EXCEPT !.angularVelocity = av,
                  !.rotation = Rem(b.rotation + av * deltaTime, 360 * Micro)]

\* animate, lines 141-146: the settlement test (0.01 and 0.05 in thousandths)
atRest(b, H) ==
    /\ Abs(b.velocityX) * 100 < Milli
    /\ Abs(b.velocityY) * 20 < Milli
    /\ Abs(b.angularVelocity) * 100 < Milli
    /\ b.posY >= maxY(H)

\* settle snapping the rotation whether or not a boundary was hit
settleAlwaysSnap(b) ==
    [b EXCEPT !.velocityX = 0,
              !.velocityY = 0,
              !.angularVelocity = 0,
              !.rotation = RoundTo(b.rotation, 90 * Micro)]

\* animate, lines 147-154: the settlement branch
settle(b) ==
    [b EXCEPT !.velocityX = 0,
              !.velocityY = 0,
              !.angularVelocity = 0,
              !.rotation = IF b.hit THEN b.rotation ELSE RoundTo(b.rotation, 90 * Micro)]

\* One full run of animate past its isDragging guard: the body afterwards,
\* with hit (hitBoundary) and settled (the loop was not rescheduled).  Each
\* stage is bound to the value of the stage before it, which is thus
\* evaluated once.
tick(b, deltaTime, W, H) ==
    CHOOSE t \in
        { IF atRest(r, H) THEN settle(r) @@ [settled |-> TRUE]
                          ELSE r @@ [settled |-> FALSE] :
            r \in { rotate(c, deltaTime) :
                c \in { checkBoundaries(i, W, H) :
                    i \in { integrate(b, deltaTime) } } } } : TRUE

-----------------------------------------------------------------------------
(* The frame queue *)
\* cancelAnimationFrame(id) on queue q
cancelAnimationFrame(q, id) == SelectSeq(q, LAMBDA h : h # id)

\* The handle requestAnimationFrame returns when q is pending
FreshId(q) ==
    CHOOSE h \in 1..(Len(q) + 2) :
        /\ h \notin Range(q) \cup {animationId}
        /\ \A k \in 1..(h - 1) : k \in Range(q) \cup {animationId}

\* animate past its guard, run deltaTime ms after lastTime, with q pending
animateBody(deltaTime, q) ==
    \E r \in {tick(CurBody, Min(deltaTime, 50), innerWidth, innerHeight)} :
        /\ SetBody(r)
        /\ elapsed' = 0
        /\ hitBoundary' = r.hit
        /\ IF r.settled
           THEN pending' = q /\ UNCHANGED animationId
           ELSE /\ animationId' = FreshId(q)
                /\ pending' = Append(q, FreshId(q))

\* Mutant of animate: the isDragging guard is missing
animateUnguarded(dragging, deltaTime, q) == animateBody(deltaTime, q)

\* animate (lines 116-158); dragging is isDragging as animate reads it
animate(dragging, deltaTime, q) ==
    IF dragging
    THEN /\ pending' = q
         /\ UNCHANGED <<body, elapsed, hitBoundary, animationId>>
    ELSE animateBody(deltaTime, q)

-----------------------------------------------------------------------------
(* The handlers *)
\* Mutant of handleScroll: hasDropped is not consulted
handleScrollNoLatch(y) ==
    /\ scrollY' = y
    /\ IF mounted /\ y > 50
       THEN /\ hasDropped' = TRUE
            /\ posY' = (innerHeight - buttonHeight - 20) * Micro
       ELSE UNCHANGED <<hasDropped, posY>>
    /\ UNCHANGED <<mounted, isDragging, posX, startX, startY, velocityX, velocityY,
                   rotation, angularVelocity, animationId, elapsed, pending,
                   innerWidth, innerHeight, hitBoundary>>

handleScroll(y) ==
    /\ scrollY' = y
    /\ IF mounted /\ ~hasDropped /\ y > 50
       THEN /\ hasDropped' = TRUE
            /\ posY' = (innerHeight - buttonHeight - 20) * Micro
       ELSE UNCHANGED <<hasDropped, posY>>
    /\ UNCHANGED <<mounted, isDragging, posX, startX, startY, velocityX, velocityY,
                   rotation, angularVelocity, animationId, elapsed, pending,
                   innerWidth, innerHeight, hitBoundary>>

\* startDrag that takes the pointer itself for the grab offset
startDragNoOffset(clientX, clientY) ==
    /\ pending' = cancelAnimationFrame(pending, animationId)
    /\ isDragging' = TRUE
    /\ velocityX' = 0
    /\ velocityY' = 0
    /\ angularVelocity' = 0
    /\ startX' = clientX * Micro
    /\ startY' = clientY * Micro
    /\ UNCHANGED <<mounted, posX, posY, rotation, hasDropped, animationId, elapsed,
                   innerWidth, innerHeight, scrollY, hitBoundary>>

\* startDrag that leaves the velocities as they are
startDragKeepsMotion(clientX, clientY) ==
    /\ pending' = cancelAnimationFrame(pending, animationId)
    /\ isDragging' = TRUE
    /\ startX' = clientX * Micro - posX
    /\ startY' = clientY * Micro - posY
    /\ UNCHANGED <<mounted, posX, posY, velocityX, velocityY, angularVelocity,
                   rotation, hasDropped, animationId, elapsed, innerWidth,
                   innerHeight, scrollY, hitBoundary>>

startDrag(clientX, clientY) ==
    /\ pending' = cancelAnimationFrame(pending, animationId)
    /\ isDragging' = TRUE
    /\ velocityX' = 0
    /\ velocityY' = 0
    /\ angularVelocity' = 0
    /\ startX' = clientX * Micro - posX
    /\ startY' = clientY * Micro - posY
    /\ UNCHANGED <<mounted, posX, posY, rotation, hasDropped, animationId, elapsed,
                   innerWidth, innerHeight, scrollY, hitBoundary>>

\* onDrag whose spin comes from the new velocity alone
onDragSpinFromVelocity(clientX, clientY) ==
    LET deltaTime == elapsed
        newVelocityX == MulDiv(clientX * Micro - startX - posX, 1, deltaTime)
        newVelocityY == MulDiv(clientY * Micro - startY - posY, 1, deltaTime)
    IN  /\ IF deltaTime > 0
           THEN /\ angularVelocity' = Mul(newVelocityX, rotationMultiplier)
                /\ velocityX' = newVelocityX
                /\ velocityY' = newVelocityY
           ELSE UNCHANGED <<angularVelocity, velocityX, velocityY>>
        /\ elapsed' = 0
        /\ posX' = clientX * Micro - startX
        /\ posY' = clientY * Micro - startY
        /\ UNCHANGED <<mounted, isDragging, startX, startY, rotation, hasDropped,
                       animationId, pending, innerWidth, innerHeight, scrollY,
                       hitBoundary>>

\* onDrag past its isDragging guard (lines 51-70)
onDragActive(clientX, clientY) ==
    LET deltaTime == elapsed
        newVelocityX == MulDiv(clientX * Micro - startX - posX, 1, deltaTime)
        newVelocityY == MulDiv(clientY * Micro - startY - posY, 1, deltaTime)
    IN  /\ IF deltaTime > 0
           THEN /\ angularVelocity' =
                       Mul(newVelocityX - velocityX, rotationMultiplier)
                /\ velocityX' = newVelocityX
                /\ velocityY' = newVelocityY
           ELSE UNCHANGED <<angularVelocity, velocityX, velocityY>>
        /\ elapsed' = 0
        /\ posX' = clientX * Micro - startX
        /\ posY' = clientY * Micro - startY
        /\ UNCHANGED <<mounted, isDragging, startX, startY, rotation, hasDropped,
                       animationId, pending, innerWidth, innerHeight, scrollY,
                       hitBoundary>>

\* onDrag without its isDragging guard
onDragUnguarded(clientX, clientY) == onDragActive(clientX, clientY)

onDrag(clientX, clientY) ==
    IF ~isDragging
    THEN UNCHANGED <<mounted, isDragging, posX, posY, startX, startY, velocityX,
                     velocityY, rotation, angularVelocity, hasDropped, animationId,
                     elapsed, pending, innerWidth, innerHeight, scrollY, hitBoundary>>
    ELSE onDragActive(clientX, clientY)

\* lastTime = performance.now() and animate's own performance.now() fall in
\* the same millisecond: animate runs with deltaTime 0
stopDrag ==
    /\ isDragging' = FALSE
    /\ animate(FALSE, 0, pending)
    /\ UNCHANGED <<mounted, startX, startY, hasDropped, innerWidth, innerHeight,
                   scrollY>>

\* A resize with no listener
resizeUnchecked(W, H) ==
    /\ innerWidth' = W
    /\ innerHeight' = H
    /\ UNCHANGED <<body, mounted, isDragging, startX, startY, hasDropped,
                   animationId, elapsed, pending, scrollY, hitBoundary>>

\* The window takes size <<W, H>>; while mounted, checkBoundaries is its listener
resize(W, H) ==
    /\ innerWidth' = W
    /\ innerHeight' = H
    /\ IF mounted THEN SetBody(checkBoundaries(CurBody, W, H)) ELSE UNCHANGED body
    /\ UNCHANGED <<mounted, isDragging, startX, startY, hasDropped, animationId,
                   elapsed, pending, scrollY, hitBoundary>>

onUnmounted ==
    /\ mounted' = FALSE
    /\ pending' = cancelAnimationFrame(pending, animationId)
    /\ UNCHANGED <<isDragging, body, startX, startY, hasDropped, animationId, elapsed,
                   innerWidth, innerHeight, scrollY, hitBoundary>>

\* The browser runs the oldest scheduled callback
frame ==
    /\ pending # <<>>
    /\ animate(isDragging, elapsed, Tail(pending))
    /\ UNCHANGED <<mounted, isDragging, startX, startY, hasDropped, innerWidth,
                   innerHeight, scrollY>>

\* d ms pass with no event
wait(d) ==
    /\ elapsed + d <= MaxElapsed
    /\ elapsed' = elapsed + d
    /\ UNCHANGED <<mounted, isDragging, body, startX, startY, hasDropped, animationId,
                   pending, innerWidth, innerHeight, scrollY, hitBoundary>>

-----------------------------------------------------------------------------
(* The component in its page: any interleaving of events *)
Did(name) == steps < MaxSteps /\ steps' = steps + 1 /\ op' = name

\* What the step leaves of the record of the drag in progress
Session(p, s, a) == pointer' = p /\ stamped' = s /\ grabAge' = a

Init ==
    /\ \E v \in Viewports :
        /\ innerWidth = v[1]
        /\ innerHeight = v[2]
        /\ posX = (v[1] * Micro) \div 2 - (buttonWidth * Micro) \div 2
    /\ posY = 20 * Micro
    /\ mounted = TRUE
    /\ isDragging = FALSE
    /\ startX = 0 /\ startY = 0
    /\ velocityX = 0 /\ velocityY = 0
    /\ rotation = 0 /\ angularVelocity = 0
    /\ hasDropped = FALSE
    /\ animationId = 0
    /\ elapsed = 0
    /\ pending = <<>>
    /\ scrollY = 0
    /\ op = "onMounted"
    /\ hitBoundary = FALSE
    /\ pointer = <<0, 0>>
    /\ stamped = FALSE
    /\ grabAge = 0
    /\ steps = 0

HandleScroll ==
    \E y \in ScrollYs :
        handleScroll(y) /\ Did("handleScroll") /\ UNCHANGED <<pointer, stamped, grabAge>>

\* startDrag writes no lastTime
StartDrag ==
    \E p \in Pointers :
        mounted /\ startDrag(p[1], p[2]) /\ Did("startDrag") /\ Session(p, FALSE, elapsed)

\* past its guard onDrag writes lastTime (line 67)
OnDrag ==
    \E p \in Pointers :
        /\ mounted /\ onDrag(p[1], p[2]) /\ Did("onDrag")
        /\ IF isDragging THEN Session(p, TRUE, 0) ELSE UNCHANGED <<pointer, stamped, grabAge>>

StopDrag == mounted /\ stopDrag /\ Did("stopDrag") /\ Session(<<0, 0>>, FALSE, 0)

Resize ==
    \E v \in Viewports :
        resize(v[1], v[2]) /\ Did("resize") /\ UNCHANGED <<pointer, stamped, grabAge>>

OnUnmounted == mounted /\ onUnmounted /\ Did("onUnmounted") /\ UNCHANGED <<pointer, stamped, grabAge>>

Frame == frame /\ Did("frame") /\ UNCHANGED <<pointer, stamped, grabAge>>

Wait == \E d \in Deltas : wait(d) /\ UNCHANGED <<op, steps, pointer, stamped, grabAge>>

Next ==
    \/ HandleScroll
    \/ StartDrag
    \/ OnDrag
    \/ StopDrag
    \/ Resize
    \/ OnUnmounted
    \/ Frame
    \/ Wait

Spec == Init /\ [][Next]_vars

-----------------------------------------------------------------------------
(* A fall with no further input.  The body starts at any of a grid of       *)
(* positions and velocities, in and around the window, either held in a    *)
(* drag that is then released or already falling with one callback         *)
(* scheduled (as after a resize in mid-fall); the browser then runs the    *)
(* scheduled callbacks, one every FrameDelta ms.                           *)
FallViewport == <<300, 100>>
FallXs == {-10, 90, 200}
FallYs == {-5, 20, 44, 60}
FallVXs == {0, 5, -300}
FallVYs == {-500, 20, 3000}
FallAVs == {5, -4000}
FallRotations == {83, 350}

InitFall ==
    /\ innerWidth = FallViewport[1]
    /\ innerHeight = FallViewport[2]
    /\ posX \in {x * Micro : x \in FallXs}
    /\ posY \in {y * Micro : y \in FallYs}
    /\ velocityX \in FallVXs
    /\ velocityY \in FallVYs
    /\ angularVelocity \in FallAVs
    /\ rotation \in {r * Micro : r \in FallRotations}
    /\ mounted = TRUE
    /\ \/ isDragging = TRUE /\ animationId = 0 /\ pending = <<>> /\ op = "onDrag"
       \/ isDragging = FALSE /\ animationId = 1 /\ pending = <<1>> /\ op = "resize"
    /\ startX = 0 /\ startY = 0
    /\ hasDropped = FALSE
    /\ elapsed = 0
    /\ scrollY = 0
    /\ hitBoundary = FALSE
    /\ pointer = <<0, 0>>
    /\ stamped = FALSE
    /\ grabAge = 0
    /\ steps = 0

Release ==
    isDragging /\ stopDrag /\ op' = "stopDrag" /\ UNCHANGED <<steps, pointer, stamped, grabAge>>

FallFrame ==
    /\ pending # <<>>
    /\ animate(isDragging, FrameDelta, Tail(pending))
    /\ op' = "frame"
    /\ UNCHANGED <<mounted, isDragging, startX, startY, hasDropped, innerWidth,
                   innerHeight, scrollY, steps, pointer, stamped, grabAge>>

NextFall == Release \/ FallFrame

SpecFall == InitFall /\ [][NextFall]_vars /\ WF_vars(NextFall)

-----------------------------------------------------------------------------
(* The resize listener alone: checkBoundaries on a grid of bodies, in        *)
(* windows down to the button's own size and below it                        *)
ResizeTargets == Viewports \cup {<<120, 56>>, <<100, 50>>}
ResizeXs == {-10, 0, 90, 200}
ResizeYs == {-5, 20, 150}
ResizeVXs == {0, 300, -40}
ResizeVYs == {0, -500, 20}

InitResize ==
    /\ mounted = TRUE
    /\ isDragging \in BOOLEAN
    /\ innerWidth = 300 /\ innerHeight = 200
    /\ posX \in {x * Micro : x \in ResizeXs}
    /\ posY \in {y * Micro : y \in ResizeYs}
    /\ velocityX \in ResizeVXs
    /\ velocityY \in ResizeVYs
    /\ angularVelocity = 5
    /\ rotation = 83 * Micro
    /\ startX = 0 /\ startY = 0
    /\ hasDropped = FALSE
    /\ scrollY = 0
    /\ elapsed = 0
    /\ pending = IF isDragging THEN <<>> ELSE <<1>>
    /\ animationId = IF isDragging THEN 0 ELSE 1
    /\ op = IF isDragging THEN "onDrag" ELSE "frame"
    /\ hitBoundary = FALSE
    /\ pointer = <<0, 0>>
    /\ stamped = FALSE
    /\ grabAge = 0
    /\ steps = 0

ResizeTo ==
    \E v \in ResizeTargets :
        /\ resize(v[1], v[2]) /\ op' = "resize"
        /\ UNCHANGED <<steps, pointer, stamped, grabAge>>

NextResize == ResizeTo

SpecResize == InitResize /\ [][NextResize]_vars

-----------------------------------------------------------------------------
(* Properties *)

\* The step is handler `name` (in the fall specification steps stays 0 and
\* every step is a handler; in Spec a handler adds one to steps, Wait does not)
Handled(name) == op' = name /\ (steps' = steps + 1 \/ steps' = 0)

\* The step runs animate past its isDragging guard
RanAnimate == (Handled("stopDrag") \/ Handled("frame")) /\ ~isDragging'

\* deltaTime of the animate run in a RanAnimate step
TickDelta == IF op' = "frame" /\ steps' # 0 THEN Min(elapsed, 50)
             ELSE IF op' = "frame" THEN Min(FrameDelta, 50) ELSE 0

\* The queue animate started from in a RanAnimate step
TickQueue == IF op' = "frame" THEN Tail(pending) ELSE pending

InViewport ==
    /\ 0 <= posX /\ posX <= (innerWidth - 120) * Micro
    /\ 0 <= posY /\ posY <= (innerHeight - 56) * Micro

\* C1: at most one animation tick is scheduled and pending in every reachable
\* state.
C1_AtMostOneTickPending == Len(pending) <= 1

\* C2: whenever isDragging is true, no scheduled animation tick is pending.
C2_NoTickPendingWhileDragging == isDragging => pending = <<>>

\* C3: in a window wider than 120 and higher than 56, the state at the end of
\* a run of animate has 0 <= posX <= W - 120 and 0 <= posY <= H - 56.
C3_TickEndsInViewport ==
    [][(RanAnimate /\ innerWidth > 120 /\ innerHeight > 56) => InViewport']_vars

\* C3 witness: a run of animate found the body beyond the right edge and the
\* floor and put it back on both
C3_Witness ==
    /\ op \in {"stopDrag", "frame"} /\ ~isDragging /\ hitBoundary
    /\ innerWidth > 120 /\ innerHeight > 56
    /\ posX = (innerWidth - 120) * Micro
    /\ posY = (innerHeight - 56) * Micro

\* C4: after a release, with no further input, the loop of animate ticks
\* reaches the settlement branch and stops rescheduling itself.
C4_LoopSettles == (isDragging /\ InViewport) => <>(~isDragging /\ pending = <<>>)

\* C5: after a tick, 0 <= rotation < 360.
C5_RotationInOneTurn ==
    [][RanAnimate => (0 <= rotation' /\ rotation' < 360 * Micro)]_vars

\* C6: once the unmount handler has run no animation tick is pending and no
\* later callback changes position, velocity, angular velocity or rotation.
C6_QuietAfterUnmount == [][~mounted => (pending = <<>> /\ UNCHANGED body)]_vars

\* C7: an animate callback that fires while isDragging is true leaves position,
\* velocity, angular velocity, rotation and lastTime unchanged and schedules
\* no tick.
C7_CallbackIdleWhileDragging ==
    [][(Handled("frame") /\ isDragging) =>
          (UNCHANGED <<body, elapsed, animationId>> /\ pending' = Tail(pending))]_vars

\* C7 witness: a callback has fired during a drag
C7_Witness == op = "frame" /\ isDragging /\ mounted

\* C8: hasDropped never returns to false; it becomes true only on a scroll
\* event with scrollY > 50, which then writes posY = viewportHeight - 56 - 20;
\* the first such event does so, and every other scroll event leaves posY and
\* hasDropped unchanged.
C8_DropLatch ==
    [][/\ hasDropped => hasDropped'
       /\ (~hasDropped /\ hasDropped') =>
              /\ Handled("handleScroll") /\ scrollY' > 50
              /\ posY' = (innerHeight - 56 - 20) * Micro
       /\ (Handled("handleScroll") /\ mounted /\ ~hasDropped /\ scrollY' > 50) =>
              hasDropped'
       /\ (Handled("handleScroll") /\ (hasDropped \/ scrollY' <= 50)) =>
              UNCHANGED <<posY, hasDropped>>]_vars

\* C8 witness: a scroll event past the threshold arrived after the drop, with
\* the body somewhere else than the drop position, and did not move it
C8_Witness ==
    /\ op = "handleScroll" /\ scrollY > 50 /\ hasDropped /\ mounted
    /\ posY # (innerHeight - 56 - 20) * Micro

\* C9: a tick that starts with the body on the floor with |vx| < 0.01,
\* |vy| < 0.05 and |angularVelocity| < 0.01 ends with all three velocities
\* zero, rotation a multiple of 90 and no further tick scheduled.
C9_RestingTickSettles ==
    [][(/\ RanAnimate
        /\ 0 <= posX /\ posX <= (innerWidth - 120) * Micro
        /\ posY = (innerHeight - 56) * Micro
        /\ Abs(velocityX) < 10 /\ Abs(velocityY) < 50 /\ Abs(angularVelocity) < 10)
       => (/\ velocityX' = 0 /\ velocityY' = 0 /\ angularVelocity' = 0
           /\ rotation' % (90 * Micro) = 0
           /\ pending' = TickQueue)]_vars

\* What C10 says of one call of checkBoundaries in a W x H window, from pre to
\* post; floorDamps: on a floor hit velocityX is further scaled by
\* friction * 0.9; spinDamp: the factor applied to angularVelocity between the
\* call and post (1000 when post is the call's own result)
BounceLaw(pre, post, W, H, floorDamps, spinDamp) ==
    LET left == pre.posX < 0
        right == ~left /\ pre.posX > (W - 120) * Micro
        top == pre.posY < 0
        floor == ~top /\ pre.posY > (H - 56) * Micro
    IN  /\ left => post.posX = 0
        /\ right => post.posX = (W - 120) * Micro
        /\ top => post.posY = 0
        /\ floor => post.posY = (H - 56) * Micro
        /\ (left \/ right) =>
              post.velocityX = IF floor /\ floorDamps
                               THEN MulDiv(Mul(-pre.velocityX, 700), 882, 1000)
                               ELSE Mul(-pre.velocityX, 700)
        /\ (top \/ floor) => post.velocityY = Mul(-pre.velocityY, 700)
        /\ (right /\ ~top /\ ~floor) =>
              post.angularVelocity = Mul(Mul(pre.velocityY, 200), spinDamp)

\* The calls of checkBoundaries a step makes and shows the result of: the
\* resize listener, and a run of animate that does not settle
BounceLawInStep(floorDamps) ==
    /\ (Handled("resize") /\ mounted) =>
          BounceLaw(CurBody, CurBody', innerWidth', innerHeight', floorDamps, 1000)
    /\ (RanAnimate /\ Len(pending') > Len(TickQueue)) =>
          BounceLaw(integrate(CurBody, TickDelta), CurBody', innerWidth, innerHeight,
                    floorDamps, 960)

\* C10 as stated: on every boundary hit the velocity on the hit axis becomes
\* -0.7 times its value before the call and the position is clamped to the
\* edge; on a right-wall hit with no Y hit angularVelocity becomes vy * 0.2.
C10_BounceAsStated == [][BounceLawInStep(FALSE)]_vars

\* C10 amended: as stated, except that when the floor is hit in the same call
\* as a side wall, velocityX ends as -0.7 * 0.98 * 0.9 times its value before.
C10_Bounce == [][BounceLawInStep(TRUE)]_vars

\* C10 witness: a release threw the body through the right wall alone, and it
\* came back with its horizontal velocity reversed
C10_Witness ==
    /\ op = "stopDrag" /\ hitBoundary /\ pending # <<>>
    /\ posX = (innerWidth - 120) * Micro /\ velocityX < 0
    /\ 0 < posY /\ posY < (innerHeight - 56) * Micro

\* C11: a drag-move that arrives while no drag is active changes nothing:
\* position, velocity, angular velocity, rotation, grab offset and lastTime
\* (the clock keeps its distance to it) are what they were, and so is the
\* frame queue, whether the body is idle, falling or resting.
C11_MoveIgnoredOutsideDrag ==
    [][(Handled("onDrag") /\ ~isDragging)
          => UNCHANGED <<body, startX, startY, elapsed, isDragging, pending,
                         animationId>>]_vars

\* a drag-move was ignored while a tick was pending (the body was falling)
C11_Witness == op = "onDrag" /\ ~isDragging /\ pending # <<>> /\ velocityY > 0

\* C12: a drag-move during a drag with no time elapsed since lastTime leaves
\* both velocities and the angular velocity alone; with deltaTime > 0 each
\* velocity becomes the pointer's displacement of the body over deltaTime
\* (pixels per second) and the angular velocity the change of the horizontal
\* velocity times rotationMultiplier.
C12_VelocityEstimate ==
    [][(Handled("onDrag") /\ isDragging)
          => IF elapsed > 0
             THEN /\ velocityX' =
                        MulDiv(pointer'[1] * Micro - startX - posX, 1, elapsed)
                  /\ velocityY' =
                        MulDiv(pointer'[2] * Micro - startY - posY, 1, elapsed)
                  /\ angularVelocity' = MulDiv(velocityX' - velocityX, 2, 10)
             ELSE UNCHANGED <<velocityX, velocityY, angularVelocity>>]_vars

\* a drag-move with time elapsed reversed a horizontal velocity it had estimated
C12_Witness ==
    /\ op = "onDrag" /\ isDragging /\ velocityX < 0
    /\ angularVelocity < MulDiv(velocityX, 2, 10)

\* C13: during a drag, after the grab and after every drag-move the body is
\* at the pointer minus the grab offset, which is the pointer at the grab
\* minus the body's position at the grab and stays what it was until the next
\* grab; zero elapsed time and positions outside the viewport make no
\* difference.
C13_BodyFollowsPointer ==
    [][/\ Handled("startDrag")
            => /\ startX' = pointer'[1] * Micro - posX
               /\ startY' = pointer'[2] * Micro - posY
       /\ (Handled("onDrag") /\ isDragging)
            => /\ posX' = pointer'[1] * Micro - startX
               /\ posY' = pointer'[2] * Micro - startY
       /\ ~Handled("startDrag") => UNCHANGED <<startX, startY>>]_vars

\* a drag-move with no time elapsed put the body outside the viewport
C13_Witness ==
    /\ op = "onDrag" /\ isDragging /\ stamped /\ velocityX = 0
    /\ posX > (innerWidth - buttonWidth) * Micro
    /\ posX = pointer[1] * Micro - startX

\* C14: startDrag zeroes both velocities and the angular velocity whatever
\* they were, and until the first drag-move of the drag they stay zero, so a
\* release with no drag-move in between runs its tick from zero.
C14_GrabZeroesMotion ==
    [][/\ Handled("startDrag")
            => (velocityX' = 0 /\ velocityY' = 0 /\ angularVelocity' = 0)
       /\ (isDragging' /\ ~stamped')
            => (velocityX' = 0 /\ velocityY' = 0 /\ angularVelocity' = 0)
       /\ (Handled("stopDrag") /\ isDragging /\ ~stamped)
            => (velocityX = 0 /\ velocityY = 0 /\ angularVelocity = 0)]_vars

\* a body was grabbed at a height it had fallen to
C14_Witness ==
    /\ op = "startDrag" /\ isDragging /\ ~stamped /\ velocityY = 0
    /\ posY > 20 * Micro /\ posY % Micro # 0

\* C15: a tick that starts above the floor, inside the viewport, with a
\* vertical velocity that is zero or points down never moves the body up,
\* and leaves the vertical velocity zero or pointing down unless the body
\* has reached the floor (posY = innerHeight - 56); so from zero velocity
\* posY never decreases from tick to tick until the floor is reached.
C15_FallsMonotonically ==
    [][(/\ RanAnimate
        /\ velocityY >= 0
        /\ 0 <= posY /\ posY < (innerHeight - buttonHeight) * Micro)
          => /\ posY' >= posY
             /\ posY' < (innerHeight - buttonHeight) * Micro => velocityY' >= 0]_vars

\* the second tick of a body released at rest at the top of the window
C15_Witness ==
    /\ op = "frame" /\ ~isDragging /\ velocityX = 0 /\ velocityY = 970
    /\ posY > 20 * Micro /\ posY < (innerHeight - buttonHeight) * Micro

\* C16: right after a resize is handled, whatever the body was doing, its
\* position lies within [0, W - 120] x [0, H - 56] of the new window, for
\* every new window with W >= 120 and H >= 56.
C16_ResizeClamps ==
    [][(Handled("resize") /\ mounted /\ innerWidth' >= 120 /\ innerHeight' >= 56)
          => InViewport']_vars

\* the window shrank to the size of the button during a drag that held the
\* body elsewhere: the body was brought back on both axes
C16_Witness ==
    /\ op = "resize" /\ mounted /\ isDragging
    /\ innerWidth = 120 /\ innerHeight = 56 /\ posX = 0 /\ posY = 0
    /\ velocityX = 24 /\ velocityY = 350

\* The body and hitBoundary after gravity, friction, integration, boundary
\* resolution and rotation in a RanAnimate step, before the settlement test
BeforeTest ==
    rotate(checkBoundaries(integrate(CurBody, TickDelta), innerWidth, innerHeight),
           TickDelta)

\* C17: the settlement test (|vx| < 0.01, |vy| < 0.05, |angularVelocity| <
\* 0.01, posY >= innerHeight - 56) is made on the values after gravity,
\* friction, integration and boundary resolution of the same tick.  A tick
\* that passes it zeroes both velocities and the angular velocity, schedules
\* nothing, and replaces the rotation by the nearest multiple of 90 exactly
\* when checkBoundaries reported no hit in that tick (with a hit the
\* rotation keeps its normalised value); a tick that fails it keeps the
\* values and schedules exactly one further tick.
C17_SettlementTick ==
    [][RanAnimate =>
         LET m == BeforeTest
         IN  /\ posX' = m.posX /\ posY' = m.posY /\ hitBoundary' = m.hit
             /\ IF /\ Abs(m.velocityX) < 10
                   /\ Abs(m.velocityY) < 50
                   /\ Abs(m.angularVelocity) < 10
                   /\ m.posY >= (innerHeight - 56) * Micro
                THEN /\ velocityX' = 0 /\ velocityY' = 0 /\ angularVelocity' = 0
                     /\ pending' = TickQueue
                     /\ m.hit => rotation' = m.rotation
                     /\ ~m.hit => /\ rotation' % (90 * Micro) = 0
                                  /\ Abs(rotation' - m.rotation) * 2 <= 90 * Micro
                ELSE /\ velocityX' = m.velocityX /\ velocityY' = m.velocityY
                     /\ angularVelocity' = m.angularVelocity
                     /\ rotation' = m.rotation
                     /\ pending' = Append(TickQueue, animationId')
                     /\ animationId' \notin Range(TickQueue)]_vars

\* a tick that pushed the body into the floor settled it, and left the
\* rotation off the multiples of 90
C17_Witness ==
    /\ op \in {"stopDrag", "frame"} /\ ~isDragging /\ pending = <<>>
    /\ hitBoundary /\ velocityY = 0 /\ angularVelocity = 0
    /\ rotation % (90 * Micro) # 0

\* What C18 says of one call of checkBoundaries in a W x H window, from pre
\* to post
CornerLaw(pre, post, W, H) ==
    LET left == pre.posX < 0
        right == pre.posX > (W - 120) * Micro
        top == pre.posY < 0
        floor == pre.posY > (H - 56) * Micro
        reflected == MulDiv(-pre.velocityX, 7, 10)
    IN  /\ left => (post.posX = 0 /\ post.velocityX \in {reflected, MulDiv(reflected, 882, 1000)})
        /\ top => (post.posY = 0 /\ post.velocityY = MulDiv(-pre.velocityY, 7, 10))
        /\ ((left \/ right) /\ ~top /\ floor) =>
              /\ post.velocityX = MulDiv(reflected, 882, 1000)
              /\ post.angularVelocity = MulDiv(-reflected, 2, 10) * 2
        /\ ((left \/ right) /\ top) =>
              post.angularVelocity = MulDiv(reflected, 2, 10)

\* C18: checkBoundaries resolves the X axis before the Y axis and runs at
\* most one branch per axis (the left and the top branch win over the right
\* and the floor branch); when a side wall and the floor are hit in one call
\* angularVelocity ends as -(reflected vx) * rotationMultiplier * 2, the side
\* wall's value overwritten, and velocityX as -(incoming vx) * bounce *
\* friction * 0.9; with the top the spin is likewise taken from the
\* reflected vx.
C18_CornerHit ==
    [][(Handled("resize") /\ mounted)
          => CornerLaw(CurBody, CurBody', innerWidth', innerHeight')]_vars

\* a moving body was caught by the right wall and the floor in one call
C18_Witness ==
    /\ op = "resize" /\ innerWidth = 121 /\ innerHeight = 57
    /\ posX = Micro /\ posY = Micro
    /\ velocityX = -185 /\ angularVelocity = 84 /\ velocityY = -14

\* C19: a drag-end that arrives while no drag is active changes nothing: the
\* body, lastTime and the frame queue are what they were, no tick is
\* scheduled.
C19_StrayReleaseIgnored ==
    [][(Handled("stopDrag") /\ ~isDragging)
          => UNCHANGED <<body, isDragging, elapsed, pending, animationId>>]_vars

\* C20: the elapsed time a drag-move works with is measured from a lastTime
\* written during the drag in progress, at its startDrag or after it: never
\* from one that is older than the startDrag.
C20_EstimateFromSessionTime ==
    [][(Handled("onDrag") /\ isDragging) => grabAge = 0]_vars

====
